---- MODULE Spec2Model ----
(***************************************************************************)
(* Finance-Tracker (src/main.py): the keyword-learning categorizer, its    *)
(* write-through category store, the budget deviation report and the       *)
(* per-category linear forecast.                                           *)
(*                                                                         *)
(* Text values (Details, keywords) are sequences of one-character strings  *)
(* so that str.lower() and str.strip() are computed, not assumed.          *)
(* Category names are TLA+ strings (the code only compares them).          *)
(* An ordered dict is a sequence of records [k, v] in insertion order.     *)
(* categories.json, when it exists, holds a sequence of <<key, list>>.      *)
(***************************************************************************)
EXTENDS Integers, Sequences, FiniteSets, TLC

VARIABLES
  categories,  \* st.session_state.categories
  file,        \* contents of categories.json, NoFile when it does not exist
  csv,         \* Details column of the uploaded file's rows, NoUpload before
  debits_df,   \* st.session_state.debits_df: rows [Details, Category]
  edited_df,   \* the data_editor's rows while "Apply Changes" loops over them
  pc,          \* "start" | "ready" | "apply", and "tab3" | "tab4" | "done"
  idx,         \* row the "Apply Changes" loop is at
  ret,         \* what the last handler step did and gave back
  ledger,      \* debits_df as the analyses read it: rows [Month, Category, Amount]
  report,      \* outcome of show_budget_recommendations
  forecast     \* outcome of show_spending_forecast

vars == <<categories, file, csv, debits_df, edited_df, pc, idx, ret,
          ledger, report, forecast>>

anaVars == <<ledger, report, forecast>>

----------------------------------------------------------------------------
(* Bounds and input alphabets *)

MaxRows == 1
MaxTx == 3
MaxMonth == 3

NoFile == [exists |-> FALSE, text |-> <<>>]
FileOf(text) == [exists |-> TRUE, text |-> text]
NoUpload == [uploaded |-> FALSE, rows |-> <<>>]
NotRun == [kind |-> "not run", msg |-> "", rows |-> <<>>]

\* Details values a row may carry: mixed case, surrounding blanks, blank only.
Details == { <<"A", " ">>, <<"b">>, <<" ">> }

\* Text typed into "New Category Name".
Names == { "", "Food", "Rent", "Uncategorized" }

\* categories.json as found at startup: absent, or a record written by hand
\* (a keyword with a leading blank, no "Uncategorized" entry).
InitFiles ==
  { NoFile,
    FileOf(<< <<"Rent", << <<"a">> >> >>, <<"Food", << <<" ", "b">> >> >> >>) }

RECURSIVE SeqsUpTo(_, _)
SeqsUpTo(S, n) ==
  IF n = 0 THEN { <<>> }
  ELSE LET shorter == SeqsUpTo(S, n - 1)
       IN shorter \cup { Append(s, x) : s \in shorter, x \in S }

Range(s) == { s[i] : i \in DOMAIN s }

Min(S) == CHOOSE x \in S : \A y \in S : x <= y
Max(S) == CHOOSE x \in S : \A y \in S : x >= y

----------------------------------------------------------------------------
(* str.lower(), str.strip() *)

LowerChar(c) == IF c = "A" THEN "a" ELSE IF c = "B" THEN "b" ELSE c

lower(s) == [i \in DOMAIN s |-> LowerChar(s[i])]

IsSpace(c) == c = " "

RECURSIVE lstrip(_)
lstrip(s) ==
  IF s = <<>> THEN s
  ELSE IF IsSpace(Head(s)) THEN lstrip(Tail(s)) ELSE s

RECURSIVE rstrip(_)
rstrip(s) ==
  IF s = <<>> THEN s
  ELSE IF IsSpace(s[Len(s)]) THEN rstrip(SubSeq(s, 1, Len(s) - 1)) ELSE s

strip(s) == rstrip(lstrip(s))

----------------------------------------------------------------------------
(* dict operations on the ordered dict *)

Keys(d) == { d[i].k : i \in DOMAIN d }

Has(d, key) == key \in Keys(d)

Pos(d, key) == CHOOSE i \in DOMAIN d : d[i].k = key

Get(d, key) == d[Pos(d, key)].v

\* d[key] = value: a new key goes last, an existing key keeps its place.
SetItem(d, key, value) ==
  IF Has(d, key)
  THEN [d EXCEPT ![Pos(d, key)] = [k |-> key, v |-> value]]
  ELSE Append(d, [k |-> key, v |-> value])

----------------------------------------------------------------------------
(* json.dump / json.load of the category record *)

json_dump(d) == [i \in DOMAIN d |-> <<d[i].k, d[i].v>>]

RECURSIVE LoadMembers(_, _, _)
LoadMembers(text, i, d) ==
  IF i > Len(text) THEN d
  ELSE LoadMembers(text, i + 1, SetItem(d, text[i][1], text[i][2]))

json_load(text) == LoadMembers(text, 1, <<>>)

DefaultCategories == << [k |-> "Uncategorized", v |-> <<>>] >>

\* Lines 12-19, run at the top of every script run.
ScriptTop(started, cats, f) ==
  LET inSession == IF started THEN cats ELSE DefaultCategories
  IN IF f.exists THEN json_load(f.text) ELSE inSession

save_categories_skip(cats, f) == f

save_categories(cats, f) == FileOf(json_dump(cats))

----------------------------------------------------------------------------
(* categorize_transactions *)

lowered_keywords(keywords) == { strip(lower(keywords[i])) : i \in DOMAIN keywords }

\* First match kept: the inner loop with a guard against re-assignment.
CategoryPass_keepfirst(df, c) ==
  [r \in DOMAIN df |->
     IF strip(lower(df[r].Details)) \in lowered_keywords(c.v)
        /\ df[r].Category = "Uncategorized"
     THEN [df[r] EXCEPT !.Category = c.k]
     ELSE df[r]]

\* Lines 32-37: one iteration of the outer loop, over every row.
CategoryPass(df, c) ==
  [r \in DOMAIN df |->
     IF strip(lower(df[r].Details)) \in lowered_keywords(c.v)
     THEN [df[r] EXCEPT !.Category = c.k]
     ELSE df[r]]

RECURSIVE CategoryLoop(_, _, _)
CategoryLoop(df, cats, i) ==
  IF i > Len(cats) THEN df
  ELSE IF cats[i].k = "Uncategorized" \/ cats[i].v = <<>>
       THEN CategoryLoop(df, cats, i + 1)
       ELSE CategoryLoop(CategoryPass(df, cats[i]), cats, i + 1)

categorize_transactions(rows, cats) ==
  CategoryLoop([r \in DOMAIN rows |-> [Details |-> rows[r], Category |-> "Uncategorized"]],
               cats, 1)

\* load_transactions on the current upload (nothing to show before an upload).
load_transactions(upload, cats) ==
  IF upload.uploaded THEN categorize_transactions(upload.rows, cats) ELSE <<>>

----------------------------------------------------------------------------
(* add_keyword_to_category *)

\* The keyword compared case-folded against the list.
add_keyword_casefold(cats, f, category, keyword) ==
  LET kw == strip(keyword)
      list == Get(cats, category)
  IN IF kw # <<>> /\ lower(kw) \notin { lower(list[i]) : i \in DOMAIN list }
     THEN LET cats2 == SetItem(cats, category, Append(list, kw))
          IN [cats |-> cats2, f |-> save_categories(cats2, f), result |-> "True"]
     ELSE [cats |-> cats, f |-> f, result |-> "False"]

\* Lines 53-60.  Returns [cats, f, result].
add_keyword_to_category(cats, f, category, keyword) ==
  LET kw == strip(keyword)
      list == Get(cats, category)
  IN IF kw # <<>> /\ kw \notin Range(list)
     THEN LET cats2 == SetItem(cats, category, Append(list, kw))
          IN [cats |-> cats2, f |-> save_categories(cats2, f), result |-> "True"]
     ELSE [cats |-> cats, f |-> f, result |-> "False"]

\* The "not in" test of line 206 left out: an existing category is reset.
add_category_overwrite(cats, f, name) ==
  IF name # ""
  THEN LET cats2 == SetItem(cats, name, <<>>)
       IN [cats |-> cats2, f |-> save_categories(cats2, f), result |-> "rerun"]
  ELSE [cats |-> cats, f |-> f, result |-> "None"]

\* Lines 205-209, the "Add Category" button with text `name`.  Nothing is
\* returned or shown; result is "rerun" when st.rerun() is reached.
add_category(cats, f, name) ==
  IF name # "" /\ ~Has(cats, name)
  THEN LET cats2 == SetItem(cats, name, <<>>)
       IN [cats |-> cats2, f |-> save_categories(cats2, f), result |-> "rerun"]
  ELSE [cats |-> cats, f |-> f, result |-> "None"]

----------------------------------------------------------------------------
(* The session: script runs and the handlers of tab 1 *)

NoRet == [op |-> "none", category |-> "", keyword |-> <<>>, result |-> "None"]

Init ==
  /\ categories = <<>>
  /\ file \in InitFiles
  /\ csv = NoUpload
  /\ debits_df = <<>>
  /\ edited_df = <<>>
  /\ pc = "start"
  /\ idx = 0
  /\ ret = NoRet
  /\ ledger = <<>>
  /\ report = NotRun
  /\ forecast = NotRun

\* First script run of a session: lines 12-19, no file uploaded yet.
FirstRun ==
  /\ pc = "start"
  /\ categories' = ScriptTop(FALSE, categories, file)
  /\ pc' = "ready"
  /\ ret' = [NoRet EXCEPT !.op = "start"]
  /\ UNCHANGED <<file, csv, debits_df, edited_df, idx>>
  /\ UNCHANGED anaVars

\* A file is uploaded: the script runs again and categorizes it.
Upload ==
  /\ pc = "ready"
  /\ \E rows \in SeqsUpTo(Details, MaxRows) :
       LET cats == ScriptTop(TRUE, categories, file)
       IN /\ categories' = cats
          /\ csv' = [uploaded |-> TRUE, rows |-> rows]
          /\ debits_df' = categorize_transactions(rows, cats)
  /\ edited_df' = <<>>
  /\ idx' = 0
  /\ ret' = [NoRet EXCEPT !.op = "upload"]
  /\ UNCHANGED <<file, pc>>
  /\ UNCHANGED anaVars

\* Any other interaction: the script runs again from the top.
Rerun ==
  /\ pc = "ready"
  /\ csv.uploaded
  /\ LET cats == ScriptTop(TRUE, categories, file)
     IN /\ categories' = cats
        /\ debits_df' = load_transactions(csv, cats)
  /\ ret' = [NoRet EXCEPT !.op = "rerun"]
  /\ UNCHANGED <<file, csv, edited_df, pc, idx>>
  /\ UNCHANGED anaVars

\* "Add Category" clicked with text `name` (lines 202-209).  On success
\* st.rerun() runs the script once more from the top.
AddCategory ==
  /\ pc = "ready"
  /\ csv.uploaded
  /\ \E name \in Names :
       LET cats == ScriptTop(TRUE, categories, file)
           out == add_category(cats, file, name)
           cats2 == IF out.result = "rerun" THEN ScriptTop(TRUE, out.cats, out.f)
                    ELSE out.cats
       IN /\ categories' = cats2
          /\ file' = out.f
          /\ debits_df' = load_transactions(csv, cats2)
          /\ ret' = [NoRet EXCEPT !.op = "addCategory", !.category = name,
                                  !.result = out.result]
  /\ edited_df' = <<>>
  /\ idx' = 0
  /\ UNCHANGED <<csv, pc>>
  /\ UNCHANGED anaVars

\* The rows the data_editor can hold: each Category is the row's own or one
\* of the selectbox options (the map's keys).
Edits(df, cats) ==
  { e \in [DOMAIN df -> Keys(cats) \cup {"Uncategorized"}] :
      \A r \in DOMAIN df : e[r] \in Keys(cats) \/ e[r] = df[r].Category }

\* "Apply Changes" clicked (line 227-228): the script runs from the top and
\* enters the loop over edited_df.
ClickApply ==
  /\ pc = "ready"
  /\ csv.uploaded
  /\ LET cats == ScriptTop(TRUE, categories, file)
         df == load_transactions(csv, cats)
     IN /\ categories' = cats
        /\ debits_df' = df
        /\ \E e \in Edits(df, cats) :
             edited_df' = [r \in DOMAIN df |-> [df[r] EXCEPT !.Category = e[r]]]
        /\ pc' = IF df = <<>> THEN "ready" ELSE "apply"
        /\ idx' = IF df = <<>> THEN 0 ELSE 1
  /\ ret' = [NoRet EXCEPT !.op = "click"]
  /\ UNCHANGED <<file, csv>>
  /\ UNCHANGED anaVars

\* One iteration of the loop at lines 229-235.
ApplyRow ==
  /\ pc = "apply"
  /\ LET row == edited_df[idx]
         new_category == row.Category
     IN IF new_category = debits_df[idx].Category
        THEN /\ ret' = [NoRet EXCEPT !.op = "skip"]
             /\ UNCHANGED <<categories, file, debits_df>>
        ELSE LET out == add_keyword_to_category(categories, file, new_category, row.Details)
             IN /\ debits_df' = [debits_df EXCEPT ![idx].Category = new_category]
                /\ categories' = out.cats
                /\ file' = out.f
                /\ ret' = [op |-> "learn", category |-> new_category,
                           keyword |-> row.Details, result |-> out.result]
  /\ idx' = IF idx = Len(edited_df) THEN 0 ELSE idx + 1
  /\ pc' = IF idx = Len(edited_df) THEN "ready" ELSE "apply"
  /\ edited_df' = IF idx = Len(edited_df) THEN <<>> ELSE edited_df
  /\ UNCHANGED csv
  /\ UNCHANGED anaVars

Next ==
  \/ FirstRun
  \/ Upload
  \/ Rerun
  \/ AddCategory
  \/ ClickApply
  \/ ApplyRow

Spec == Init /\ [][Next]_vars

----------------------------------------------------------------------------
(* The analyses of tabs 3 and 4.  Amounts are whole numbers; a quotient is  *)
(* kept exact as [num, den] with den > 0, and a float64 result that is not  *)
(* finite is kept as its IEEE 754 kind.  The columns Suggested Budget and   *)
(* Recommendation are not carried: no property reads them.                  *)

\* Period("M") of the Date column, a statement of a few months.
Months == 1..MaxMonth

\* Category values in the order pandas sorts them.
CategoryOrder == <<"Food", "Rent">>

CatRank(c) == CHOOSE i \in DOMAIN CategoryOrder : CategoryOrder[i] = c

Amounts == {-2, 0, 2, 3}

LedgerRows == [Month : Months, Category : Range(CategoryOrder), Amount : Amounts]

\* Statement order: by month, then category, then amount.
RowKey(r) == (r.Month * 10 + CatRank(r.Category)) * 10 + (r.Amount + 5)

\* The statements of up to n rows, rows in statement order.
RECURSIVE Statements(_)
Statements(n) ==
  IF n = 0 THEN { <<>> }
  ELSE LET shorter == Statements(n - 1)
           longest == { s \in shorter : Len(s) = n - 1 }
       IN shorter \cup
          { Append(p[1], p[2]) :
              p \in { q \in longest \X LedgerRows :
                        q[1] = <<>> \/ RowKey(q[1][Len(q[1])]) <= RowKey(q[2]) } }

RECURSIVE SumAmount(_)
SumAmount(rows) ==
  IF rows = <<>> THEN 0 ELSE Head(rows).Amount + SumAmount(Tail(rows))

GroupRows(rows, m, c) ==
  LET Test(r) == r.Month = m /\ r.Category = c IN SelectSeq(rows, Test)

CategoryRows(rows, c) ==
  LET Test(r) == r.Category = c IN SelectSeq(rows, Test)

MonthRows(rows, m) ==
  LET Test(r) == r.Month = m IN SelectSeq(rows, Test)

\* The rows of `rows` in ascending (Month, Category) order.
RECURSIVE SortGroups(_)
SortGroups(groups) ==
  IF groups = {} THEN <<>>
  ELSE LET first == CHOOSE g \in groups :
                      \A h \in groups :
                        g.Month * 10 + CatRank(g.Category)
                          <= h.Month * 10 + CatRank(h.Category)
       IN <<first>> \o SortGroups(groups \ {first})

\* df.groupby(["Month", "Category"])["Amount"].sum().reset_index()
monthly_summary(df) ==
  SortGroups({ [Month |-> df[i].Month, Category |-> df[i].Category,
                Amount |-> SumAmount(GroupRows(df, df[i].Month, df[i].Category))]
               : i \in DOMAIN df })

\* monthly_summary.groupby("Category")["Amount"].mean() for one category.
MeanAmount(summary, c) ==
  LET rows == CategoryRows(summary, c)
  IN [num |-> SumAmount(rows), den |-> Len(rows)]

\* ((Amount_last - Amount_avg) / Amount_avg) * 100 in float64: a zero
\* divisor gives inf, -inf or nan, never an exception.
Deviation(last, avg) ==
  LET diff == last * avg.den - avg.num
  IN IF avg.num = 0
     THEN [kind |-> IF last > 0 THEN "inf" ELSE IF last < 0 THEN "-inf" ELSE "nan",
           num |-> 0, den |-> 1]
     ELSE IF avg.num > 0
          THEN [kind |-> "finite", num |-> diff * 100, den |-> avg.num]
          ELSE [kind |-> "finite", num |-> (0 - diff) * 100, den |-> 0 - avg.num]

\* x > n and x < n on a float64 x: every comparison with nan is false.
Greater(x, n) ==
  \/ x.kind = "inf"
  \/ x.kind = "finite" /\ x.num > n * x.den

Less(x, n) ==
  \/ x.kind = "-inf"
  \/ x.kind = "finite" /\ x.num < n * x.den

\* The thresholds taken inclusive.
status_tag_inclusive(dev) ==
  IF Greater(dev, 20) \/ (dev.kind = "finite" /\ dev.num = 20 * dev.den)
  THEN "Overspending"
  ELSE IF Less(dev, -20) \/ (dev.kind = "finite" /\ dev.num = (-20) * dev.den)
       THEN "Spending Less"
       ELSE "Within Range"

\* Lines 86-92.
status_tag(dev) ==
  IF Greater(dev, 20) THEN "Overspending"
  ELSE IF Less(dev, -20) THEN "Spending Less"
  ELSE "Within Range"

Info(msg) == [kind |-> "info", msg |-> msg, rows |-> <<>>]
Table(rows) == [kind |-> "table", msg |-> "", rows |-> rows]

\* Lines 65-111.
show_budget_recommendations(df) ==
  LET summary == monthly_summary(df)
  IN IF summary = <<>>
     THEN Info("Not enough data to generate recommendations.")
     ELSE LET recent_month == Max({ summary[i].Month : i \in DOMAIN summary })
              last_month == MonthRows(summary, recent_month)
              \* merge on Category: the left rows, each with its category's mean
              comparison ==
                [i \in DOMAIN last_month |->
                   LET avg == MeanAmount(summary, last_month[i].Category)
                       dev == Deviation(last_month[i].Amount, avg)
                   IN [Category |-> last_month[i].Category,
                       Amount_last |-> last_month[i].Amount,
                       Amount_avg |-> avg,
                       Deviation |-> dev,
                       Status |-> status_tag(dev)]]
          IN Table(comparison)

\* The categories of a summary in order of first appearance (Series.unique()).
RECURSIVE Unique(_, _)
Unique(summary, seen) ==
  IF summary = <<>> THEN <<>>
  ELSE IF Head(summary).Category \in seen
       THEN Unique(Tail(summary), seen)
       ELSE <<Head(summary).Category>>
              \o Unique(Tail(summary), seen \cup {Head(summary).Category})

\* The regressor taken from the calendar: gaps between months kept.
Month_Num_calendar(cat_data) == [i \in DOMAIN cat_data |-> cat_data[i].Month]

\* Line 148: range(1, len(cat_data) + 1).
Month_Num(cat_data) == [i \in DOMAIN cat_data |-> i]

RECURSIVE SumOver(_, _)
SumOver(f, n) == IF n = 0 THEN 0 ELSE f[n] + SumOver(f, n - 1)

\* round(q, 2) of the quotient num / den (den > 0), in hundredths; a tie
\* goes to the even neighbour.
Round2(num, den) ==
  LET scaled == num * 100
      floor == scaled \div den
      twice == 2 * (scaled - floor * den)
  IN IF twice < den THEN floor
     ELSE IF twice > den THEN floor + 1
     ELSE IF floor % 2 = 0 THEN floor ELSE floor + 1

\* LinearRegression().fit(X, y) then predict at max(X) + 1: the least-squares
\* line through the points (x[i], y[i]), as a quotient.
predict_next(x, y) ==
  LET n == Len(x)
      Sx == SumOver(x, n)
      Sy == SumOver(y, n)
      Sxx == SumOver([i \in 1..n |-> x[i] * x[i]], n)
      Sxy == SumOver([i \in 1..n |-> x[i] * y[i]], n)
      D == n * Sxx - Sx * Sx
      slopeNum == n * Sxy - Sx * Sy
      next == Max(Range(x)) + 1
  IN \* intercept = (Sy - slope * Sx) / n, slope = slopeNum / D
     [num |-> Sy * D - slopeNum * Sx + slopeNum * next * n, den |-> n * D]

\* Lines 143-162, the loop over the categories.
RECURSIVE predictions(_, _)
predictions(monthly, cats) ==
  IF cats = <<>> THEN <<>>
  ELSE LET category == Head(cats)
           cat_data == CategoryRows(monthly, category)
           X == Month_Num(cat_data)
           y == [i \in DOMAIN cat_data |-> cat_data[i].Amount]
       IN IF Len(X) >= 2
          THEN LET predicted == predict_next(X, y)
               IN <<[Category |-> category,
                     Predicted |-> Round2(predicted.num, predicted.den)]>>
                    \o predictions(monthly, Tail(cats))
          ELSE predictions(monthly, Tail(cats))

\* Lines 134-168.
show_spending_forecast(df) ==
  LET monthly == monthly_summary(df)
  IN IF monthly = <<>>
     THEN Info("Not enough data to forecast.")
     ELSE LET rows == predictions(monthly, Unique(monthly, {}))
          IN IF rows = <<>>
             THEN Info("Need at least 2 months of data per category to forecast.")
             ELSE Table(rows)

\* A script run over an uploaded statement, at tab 3.
InitAnalysis ==
  /\ categories = DefaultCategories
  /\ file = NoFile
  /\ csv = NoUpload
  /\ debits_df = <<>>
  /\ edited_df = <<>>
  /\ pc = "tab3"
  /\ idx = 0
  /\ ret = NoRet
  /\ ledger \in Statements(MaxTx)
  /\ report = NotRun
  /\ forecast = NotRun

\* Line 265.
ShowBudget ==
  /\ pc = "tab3"
  /\ report' = show_budget_recommendations(ledger)
  /\ pc' = "tab4"
  /\ UNCHANGED <<categories, file, csv, debits_df, edited_df, idx, ret, ledger, forecast>>

\* Line 268.
ShowForecast ==
  /\ pc = "tab4"
  /\ forecast' = show_spending_forecast(ledger)
  /\ pc' = "done"
  /\ UNCHANGED <<categories, file, csv, debits_df, edited_df, idx, ret, ledger, report>>

NextAnalysis ==
  \/ ShowBudget
  \/ ShowForecast

SpecAnalysis == InitAnalysis /\ [][NextAnalysis]_vars

----------------------------------------------------------------------------
(* Properties of the categorizer *)

\* Positions of the categories, other than "Uncategorized", one of whose
\* keywords equals the details once both are case-folded and trimmed.
Matches(cats, details) ==
  { i \in DOMAIN cats :
      /\ cats[i].k # "Uncategorized"
      /\ \E j \in DOMAIN cats[i].v :
           strip(lower(cats[i].v[j])) = strip(lower(details)) }

\* The category classify gives a single row with these details.
Classify1(cats, details) == categorize_transactions(<<details>>, cats)[1].Category

\* debits_df is what this script run's load_transactions produced.
Fresh == ret.op \in {"upload", "rerun", "addCategory", "click"}

\* C1 as stated: a row whose details equal a keyword of two or more
\* categories gets the one FIRST in the map's insertion order; a row matching
\* no category gets "Uncategorized".
C1_FirstMatchWins ==
  Fresh =>
    \A r \in DOMAIN debits_df :
      LET m == Matches(categories, debits_df[r].Details)
      IN /\ Cardinality(m) >= 2 => debits_df[r].Category = categories[Min(m)].k
         /\ m = {} => debits_df[r].Category = "Uncategorized"

\* C1 amended: a row whose details equal a keyword of two or more categories
\* gets the one LAST in the map's insertion order (every later match
\* overwrites the earlier one); a row matching no category gets
\* "Uncategorized".
C1_LastMatchWins ==
  Fresh =>
    \A r \in DOMAIN debits_df :
      LET m == Matches(categories, debits_df[r].Details)
      IN /\ Cardinality(m) >= 2 => debits_df[r].Category = categories[Max(m)].k
         /\ m = {} => debits_df[r].Category = "Uncategorized"

C1_Witness ==
  /\ Fresh
  /\ \E r \in DOMAIN debits_df :
       LET m == Matches(categories, debits_df[r].Details)
       IN /\ Cardinality(m) >= 2
          /\ debits_df[r].Category = categories[Max(m)].k
          /\ debits_df[r].Category # categories[Min(m)].k

\* C2: learn(category, keyword) returns False and changes neither the map nor
\* the file when the trimmed keyword is empty or already in that category's
\* list (exact, case-sensitive); otherwise it appends the trimmed keyword at
\* the end of that category's list only, writes the file and returns True.
C2_Learn ==
  [][ret'.op = "learn" =>
       LET c == ret'.category
           kw == strip(ret'.keyword)
           list == Get(categories, c)
       IN IF kw = <<>> \/ (\E j \in DOMAIN list : list[j] = kw)
          THEN /\ ret'.result = "False"
               /\ categories' = categories
               /\ file' = file
          ELSE /\ ret'.result = "True"
               /\ Len(categories') = Len(categories)
               /\ \A i \in DOMAIN categories :
                    /\ categories'[i].k = categories[i].k
                    /\ categories'[i].v = IF categories[i].k = c
                                          THEN Append(list, kw)
                                          ELSE categories[i].v
               /\ file'.exists
               /\ json_load(file'.text) = categories']_vars

\* A keyword was appended behind one that differs from it only in case.
C2_Witness ==
  /\ ret.op = "learn"
  /\ ret.result = "True"
  /\ LET list == Get(categories, ret.category)
     IN /\ Len(list) >= 2
        /\ list[Len(list)] = strip(ret.keyword)
        /\ \E j \in 1..(Len(list) - 1) : lower(list[j]) = lower(strip(ret.keyword))

\* C3 as stated: addCategory(name) with name already a key gives the caller a
\* DuplicateCategory indicator and changes nothing; with any other name it
\* inserts name with an empty keyword list and writes the file.
C3_DuplicateCategoryIndicator ==
  [][ret'.op = "addCategory" =>
       LET name == ret'.category
       IN IF Has(categories, name)
          THEN /\ ret'.result = "DuplicateCategory"
               /\ categories' = categories
               /\ file' = file
          ELSE /\ Has(categories', name)
               /\ Get(categories', name) = <<>>
               /\ file'.exists
               /\ json_load(file'.text) = categories']_vars

\* C3 amended: addCategory(name) with name already a key (including
\* "Uncategorized") or with the empty name changes neither the map nor the
\* file and gives the caller nothing (a silent no-op); with any other name it
\* inserts name last with an empty keyword list and writes the file.
C3_AddCategorySilent ==
  [][ret'.op = "addCategory" =>
       LET name == ret'.category
       IN IF Has(categories, name) \/ name = ""
          THEN /\ ret'.result = "None"
               /\ categories' = categories
               /\ file' = file
          ELSE /\ ret'.result = "rerun"
               /\ categories' = Append(categories, [k |-> name, v |-> <<>>])
               /\ file'.exists
               /\ json_load(file'.text) = categories']_vars

\* "Add Category" was clicked with the name of a category that has keywords.
C3_Witness ==
  /\ ret.op = "addCategory"
  /\ ret.result = "None"
  /\ Has(categories, ret.category)
  /\ Get(categories, ret.category) # <<>>

\* C4: once the startup load has run, "Uncategorized" is a key of the map.
C4_UncategorizedPresent ==
  pc # "start" => Has(categories, "Uncategorized")

\* C5: every step after startup that changes the map in memory leaves a file
\* whose reload is that same map (keys and keywords in the same order).
C5_WriteThrough ==
  [][(pc # "start" /\ categories' # categories) =>
       (file'.exists /\ json_load(file'.text) = categories')]_vars

C5_Witness ==
  /\ ret.op = "learn"
  /\ ret.result = "True"
  /\ Len(categories) >= 2
  /\ file.exists
  /\ json_load(file.text) = categories

\* C6 as stated: a row classify assigns to a category D that comes BEFORE C in
\* map order keeps D after learn(C, k).
C6_EarlierMatchKept ==
  [][ret'.op = "learn" =>
       \A t \in Details :
         LET D == Classify1(categories, t)
             C == ret'.category
         IN (D # "Uncategorized" /\ D # C
             /\ Pos(categories, D) < Pos(categories, C))
            => Classify1(categories', t) = D]_vars

\* C6 amended: a row classify assigns to a category D that comes AFTER C in
\* map order keeps D after learn(C, k); learn(C, k) only moves rows to C, and
\* only rows that were "Uncategorized" or assigned to a category before C.
C6_LaterMatchKept ==
  [][ret'.op = "learn" =>
       \A t \in Details :
         LET D == Classify1(categories, t)
             C == ret'.category
             E == Classify1(categories', t)
         IN /\ (D # "Uncategorized" /\ D # C
                /\ Pos(categories, D) > Pos(categories, C))
               => E = D
            /\ E # D =>
                 /\ E = C
                 /\ D = "Uncategorized" \/ Pos(categories, D) < Pos(categories, C)]_vars

\* learn gave an earlier category a keyword that a row of a later category
\* matches, and the row stays with the later category.
C6_Witness ==
  /\ ret.op = "learn"
  /\ ret.result = "True"
  /\ ret.category # "Uncategorized"
  /\ \E t \in Details :
       LET D == Classify1(categories, t)
       IN /\ strip(lower(t)) = strip(lower(ret.keyword))
          /\ D # "Uncategorized"
          /\ D # ret.category
          /\ Pos(categories, D) > Pos(categories, ret.category)

\* C10: after the user moves a row to category C (learn(C, row.Details)),
\* classify with the updated map gives that row category C.
C10_CorrectionSticks ==
  ret.op = "learn" => Classify1(categories, ret.keyword) = ret.category

----------------------------------------------------------------------------
(* Properties of the analyses, stated on the ledger itself *)

LedgerCategories == { ledger[i].Category : i \in DOMAIN ledger }

\* The distinct months in which the ledger has a row of category c.
LedgerMonths(c) == { ledger[i].Month : i \in { j \in DOMAIN ledger : ledger[j].Category = c } }

LatestMonth == Max({ ledger[i].Month : i \in DOMAIN ledger })

RECURSIVE TotalUpTo(_, _, _)
TotalUpTo(c, months, n) ==
  IF n = 0 THEN 0
  ELSE TotalUpTo(c, months, n - 1)
         + (IF ledger[n].Category = c /\ ledger[n].Month \in months
            THEN ledger[n].Amount ELSE 0)

\* What category c spent in month m, and over all its months.
Total(c, m) == TotalUpTo(c, {m}, Len(ledger))
TotalAll(c) == TotalUpTo(c, Months, Len(ledger))

RowsFor(table, c) == { i \in DOMAIN table.rows : table.rows[i].Category = c }

BudgetShown == pc \in {"tab4", "done"}

\* C7: a category of the most recent month whose average is 0 is reported
\* with its deviation undefined (never a numeric value), whether its recent
\* amount is 0 or not, and the analysis does not fail.
C7_ZeroAverageUndefined ==
  (BudgetShown /\ ledger # <<>>) =>
    /\ report.kind = "table"
    /\ \A i \in DOMAIN report.rows :
         TotalAll(report.rows[i].Category) = 0
           => report.rows[i].Deviation.kind = "nan"

\* C8: for a non-empty ledger the report has exactly one row per category
\* present in the latest month and none for any other; a row whose average
\* is not 0 has deviation (recent - average) / average * 100, the average
\* taken over all the category's months, and is Overspending iff the
\* deviation is above 20, Spending Less iff below -20, Within Range otherwise.
C8_DeviationReport ==
  (BudgetShown /\ ledger # <<>>) =>
    /\ report.kind = "table"
    /\ \A c \in Range(CategoryOrder) :
         Cardinality(RowsFor(report, c)) = IF LatestMonth \in LedgerMonths(c) THEN 1 ELSE 0
    /\ \A i \in DOMAIN report.rows :
         LET row == report.rows[i]
             c == row.Category
             n == Cardinality(LedgerMonths(c))
             S == TotalAll(c)
             \* deviation = d / S, average = S / n
             d == (Total(c, LatestMonth) * n - S) * 100
             above == IF S > 0 THEN d > 20 * S ELSE d < 20 * S
             below == IF S > 0 THEN d < (-20) * S ELSE d > (-20) * S
         IN S # 0 =>
              /\ row.Deviation.kind = "finite"
              /\ row.Deviation.num * S = d * row.Deviation.den
              /\ row.Status = "Overspending" <=> above
              /\ row.Status = "Spending Less" <=> below
              /\ row.Status = "Within Range" <=> (~above /\ ~below)

\* A row at exactly 20 percent is Within Range, and a category with history
\* but nothing in the latest month has no row.
C8_Witness ==
  /\ BudgetShown
  /\ report.kind = "table"
  /\ \E i \in DOMAIN report.rows :
       /\ report.rows[i].Deviation.kind = "finite"
       /\ report.rows[i].Deviation.num = 20 * report.rows[i].Deviation.den
       /\ report.rows[i].Status = "Within Range"
  /\ \E c \in LedgerCategories : RowsFor(report, c) = {}

\* C9: the forecast has a row for a category iff the category has at least 2
\* distinct months; when none has, the outcome is a notice, not a table; a
\* category with exactly 2 monthly totals m1 then m2 is predicted 2*m2 - m1
\* whatever the gap between the two months.
C9_ForecastRule ==
  pc = "done" =>
    /\ \A c \in Range(CategoryOrder) :
         Cardinality(RowsFor(forecast, c)) = IF Cardinality(LedgerMonths(c)) >= 2 THEN 1 ELSE 0
    /\ IF \E c \in LedgerCategories : Cardinality(LedgerMonths(c)) >= 2
       THEN forecast.kind = "table"
       ELSE forecast.kind = "info" /\ forecast.rows = <<>>
    /\ \A i \in DOMAIN forecast.rows :
         LET c == forecast.rows[i].Category
             ms == LedgerMonths(c)
         IN Cardinality(ms) = 2 =>
              forecast.rows[i].Predicted = (2 * Total(c, Max(ms)) - Total(c, Min(ms))) * 100

\* Two months with a gap between them and different totals are forecast, and
\* a category with a single month is left out.
C9_Witness ==
  /\ pc = "done"
  /\ forecast.kind = "table"
  /\ \E i \in DOMAIN forecast.rows :
       LET c == forecast.rows[i].Category
           ms == LedgerMonths(c)
       IN /\ Cardinality(ms) = 2
          /\ Max(ms) - Min(ms) >= 2
          /\ Total(c, Max(ms)) # Total(c, Min(ms))
  /\ \E c \in LedgerCategories : Cardinality(LedgerMonths(c)) = 1

====
